---- MODULE Spec2Model ----
(***************************************************************************)
(* Model of packages/langium-sql/src/sql-error-codes.ts: the reporter      *)
(* factory SqlErrorFactory.create and the ReportAs catalog built from it.  *)
(*                                                                         *)
(* Strings are TLA+ strings; a template literal is the concatenation of    *)
(* its literal chunks and the string conversion of its substitutions.      *)
(* DiagnosticInfo objects live on a heap, so that "info.code = code" is a  *)
(* write through a reference, as in the source.                            *)
(***************************************************************************)
EXTENDS Integers, Sequences, FiniteSets, TLC

\* ------------------------------------------------------------------ bounds
\* Number of validation passes that may be inside a reporter at once.
NumPasses == 2
\* Number of AST nodes a validator may report on.
MaxNodes == 2
\* Longest dataTypeNames / arguments array of an ast.DataType parameter.
MaxNames == 2
MaxArgs == 2

Passes == 1..NumPasses
Nodes == 1..MaxNodes

\* --------------------------------------------------------- JavaScript values
\* The value `undefined`: an absent property of an object, or a missing
\* parameter field.
Undefined == "<undefined>"

\* A JavaScript number: NaN, +-Infinity, or a finite decimal
\* (-1)^neg * (whole + tenths/10).  Negative zero is neg with whole = tenths = 0.
Num(kind, neg, whole, tenths) ==
    [kind |-> kind, neg |-> neg, whole |-> whole, tenths |-> tenths]
NaN == Num("nan", FALSE, 0, 0)
Infinity == Num("inf", FALSE, 0, 0)
NegInfinity == Num("inf", TRUE, 0, 0)
NegZero == Num("fin", TRUE, 0, 0)
Int32(n) == Num("fin", n < 0, IF n < 0 THEN -n ELSE n, 0)
Dec(w, t) == Num("fin", FALSE, w, t)

DigitChar(d) == SubSeq("0123456789", d + 1, d + 1)

RECURSIVE NatToString(_)
NatToString(n) ==
    IF n < 10 THEN DigitChar(n)
    ELSE NatToString(n \div 10) \o DigitChar(n % 10)

\* Number::toString as applied by a template substitution ${value}.
NumberToString(v) ==
    IF v.kind = "nan" THEN "NaN"
    ELSE IF v.kind = "fin" /\ v.whole = 0 /\ v.tenths = 0 THEN "0"
    ELSE (IF v.neg THEN "-" ELSE "") \o
         (IF v.kind = "inf" THEN "Infinity"
          ELSE NatToString(v.whole) \o
               (IF v.tenths = 0 THEN "" ELSE "." \o DigitChar(v.tenths)))

\* Array.prototype.join(sep) over an array of strings.
RECURSIVE Join(_, _)
Join(arr, sep) ==
    IF Len(arr) = 0 THEN ""
    ELSE IF Len(arr) = 1 THEN arr[1]
    ELSE arr[1] \o sep \o Join(Tail(arr), sep)

\* Array.prototype.map(dt => dt.value) followed by the string conversion
\* join applies to each element.
MapValue(arguments) == [i \in 1..Len(arguments) |-> NumberToString(arguments[i].value)]

\* ------------------------------------------------------- parameter records
\* A parameter (or parameter field) the caller did not supply.
Missing == [undefined |-> TRUE]
IsObject(v) == "undefined" \notin DOMAIN v

\* The zero-field parameter record {}.
NoProps == [empty |-> TRUE]

\* TypeDescriptor: read only through its discriminator.
Discriminators == {"integer", "boolean"}
TypeDescriptor == [discriminator : Discriminators]

\* BinaryOperator / UnaryOperator values, with the empty string as the edge.
BinaryOperators == {"+", ""}
UnaryOperators == {"-", "NOT", ""}

Names == {"x", "ab", ""}
NumericValues == {Int32(0), NegZero, Dec(1, 5), Int32(-3), NaN, Infinity, NegInfinity}
ColumnIndexes == {Int32(0), Int32(2), Int32(2147483647), NaN}
Kinds == {"TableDefinition", ""}

\* ast.DataType: dataTypeNames is an array of strings, arguments an array of
\* number literals.
SeqsUpTo(S, n) == UNION {[1..k -> S] : k \in 0..n}
NumberLiteral == [value : {Int32(10), Dec(2, 5)}]
DataType ==
    [dataTypeNames : SeqsUpTo({"DOUBLE", "PRECISION"}, MaxNames),
     arguments : SeqsUpTo(NumberLiteral, MaxArgs)]

\* BinaryOperatorMismatch and UnaryOperatorMismatch.
BinaryOperatorMismatch ==
    [op : BinaryOperators, left : TypeDescriptor, right : TypeDescriptor]
UnaryOperatorMismatch == [op : UnaryOperators, operand : TypeDescriptor]

\* ------------------------------------------------------------- the catalog
\* The keys of ReportAs, in declaration order.
ReportAsKeys ==
    << "DuplicatedVariableName",
       "NumericValueIsNotInteger",
       "BinaryOperatorNotDefinedForGivenExpressions",
       "UnaryOperatorNotDefinedForGivenExpression",
       "ExpressionMustReturnABoolean",
       "AllStarSelectionRequiresTableSources",
       "TableDefinitionRequiresAtLeastOneColumn",
       "SubQueriesWithinSelectStatementsMustHaveExactlyOneColumn",
       "CannotDeriveTypeOfExpression",
       "TableOperationUsesTablesWithDifferentColumnCounts",
       "TableOperationUsesTablesWithDifferentColumnTypes",
       "IncorrectGlobalReferenceTarget",
       "UnknownDataType" >>
Entries == {ReportAsKeys[i] : i \in 1..Len(ReportAsKeys)}

\* The parameter type P of each entry (second type argument of create).
DeclaredParams(e) ==
    CASE e = "DuplicatedVariableName" -> [name : Names]
      [] e = "NumericValueIsNotInteger" -> [value : NumericValues]
      [] e = "BinaryOperatorNotDefinedForGivenExpressions" -> BinaryOperatorMismatch
      [] e = "UnaryOperatorNotDefinedForGivenExpression" -> UnaryOperatorMismatch
      [] e = "ExpressionMustReturnABoolean" -> TypeDescriptor
      [] e = "TableOperationUsesTablesWithDifferentColumnTypes" ->
            [columnIndex : ColumnIndexes]
      [] e = "IncorrectGlobalReferenceTarget" -> [expected : Kinds, received : Kinds]
      [] e = "UnknownDataType" -> [dataType : DataType]
      [] OTHER -> {NoProps}

\* What an unchecked caller can pass: a value of the declared type, no
\* parameter record at all, or a record whose object-valued field is missing.
MalformedParams(e) ==
    {Missing} \cup
    CASE e = "BinaryOperatorNotDefinedForGivenExpressions" ->
            {[op |-> "+", left |-> Missing, right |-> [discriminator |-> "integer"]]}
      [] e = "UnaryOperatorNotDefinedForGivenExpression" ->
            {[op |-> "-", operand |-> Missing]}
      [] e = "UnknownDataType" -> {[dataType |-> Missing]}
      [] OTHER -> {}
Params(e) == DeclaredParams(e) \cup MalformedParams(e)

\* Outcome of evaluating an expression: a value, or a thrown error.
Value(v) == [ok |-> TRUE, value |-> v]
Throw(err) == [ok |-> FALSE, error |-> err]

\* The static arguments of each SqlErrorFactory.create call of ReportAs:
\* the code, the severity, and the property key of the object literal the
\* diagnostic generator returns (Undefined when the literal is ({ node })).
Entry(code, severity, property) ==
    [code |-> code, severity |-> severity, property |-> property]
ReportAs ==
    ("DuplicatedVariableName" :> Entry("SQL00001", "error", "name")) @@
    ("NumericValueIsNotInteger" :> Entry("SQL00002", "error", "value")) @@
    ("BinaryOperatorNotDefinedForGivenExpressions" :>
        Entry("SQL00003", "error", "operator")) @@
    ("UnaryOperatorNotDefinedForGivenExpression" :>
        Entry("SQL00004", "error", "operator")) @@
    ("ExpressionMustReturnABoolean" :> Entry("SQL00005", "error", Undefined)) @@
    ("AllStarSelectionRequiresTableSources" :> Entry("SQL00006", "error", Undefined)) @@
    ("TableDefinitionRequiresAtLeastOneColumn" :>
        Entry("SQL00007", "error", "element")) @@
    ("SubQueriesWithinSelectStatementsMustHaveExactlyOneColumn" :>
        Entry("SQL00008", "error", "subQuery")) @@
    ("CannotDeriveTypeOfExpression" :> Entry("SQL00009", "error", Undefined)) @@
    ("TableOperationUsesTablesWithDifferentColumnCounts" :>
        Entry("SQL00010", "error", "operator")) @@
    ("TableOperationUsesTablesWithDifferentColumnTypes" :>
        Entry("SQL00011", "error", "operator")) @@
    ("IncorrectGlobalReferenceTarget" :> Entry("SQL00012", "error", "element")) @@
    ("UnknownDataType" :> Entry("SQL00013", "error", Undefined))

\* A copy-paste slip: the last entry reuses the code of the one before it.
CodeOfReused(e) ==
    IF e = "UnknownDataType" THEN ReportAs["IncorrectGlobalReferenceTarget"].code
    ELSE ReportAs[e].code
\* Two neighbouring entries with their codes exchanged.
CodeOfSwapped(e) ==
    IF e = "IncorrectGlobalReferenceTarget" THEN ReportAs["UnknownDataType"].code
    ELSE IF e = "UnknownDataType" THEN ReportAs["IncorrectGlobalReferenceTarget"].code
    ELSE ReportAs[e].code
\* The code parameter of create, captured by the reporter closure.
CodeOf(e) == ReportAs[e].code

\* One entry registered as a warning.
SeverityOfWarning(e) ==
    IF e = "UnknownDataType" THEN "warning" ELSE ReportAs[e].severity
\* The severity parameter of create, captured by the reporter closure.
SeverityOf(e) == ReportAs[e].severity

\* ------------------------------------------------------ message generators
\* Each is the arrow function passed as messageGenerator.  Destructuring
\* undefined, or reading a property of undefined, throws a TypeError.
DuplicatedVariableNameMessage(props) ==
    IF ~IsObject(props) THEN Throw("TypeError")
    ELSE Value("Duplicated variable name '" \o props.name \o "'.")

NumericValueIsNotIntegerMessage(props) ==
    IF ~IsObject(props) THEN Throw("TypeError")
    ELSE Value("Value '" \o NumberToString(props.value) \o "' is not an integer.")

BinaryOperatorNotDefinedForGivenExpressionsMessage(props) ==
    IF ~IsObject(props) THEN Throw("TypeError")
    ELSE IF ~IsObject(props.left) \/ ~IsObject(props.right) THEN Throw("TypeError")
    ELSE Value("Binary operator '" \o props.op \o "' is not defined for ('"
               \o props.left.discriminator \o "', '"
               \o props.right.discriminator \o "').")

UnaryOperatorNotDefinedForGivenExpressionMessage(props) ==
    IF ~IsObject(props) THEN Throw("TypeError")
    ELSE IF ~IsObject(props.operand) THEN Throw("TypeError")
    ELSE Value("Unary operator '" \o props.op \o "' is not defined for '"
               \o props.operand.discriminator \o "'.")

ExpressionMustReturnABooleanMessage(props) ==
    IF ~IsObject(props) THEN Throw("TypeError")
    ELSE Value("Expression must return a boolean, not a '"
               \o props.discriminator \o "'.")

AllStarSelectionRequiresTableSourcesMessage(props) ==
    Value("All-star selection requires table sources (FROM is missing).")

TableDefinitionRequiresAtLeastOneColumnMessage(props) ==
    Value("Table definition requires at least one column.")

SubQueriesWithinSelectStatementsMustHaveExactlyOneColumnMessage(props) ==
    Value("Sub queries within select statements must have exactly one column.")

CannotDeriveTypeOfExpressionMessage(props) ==
    Value("Unable to derive the type of the expression.")

TableOperationUsesTablesWithDifferentColumnCountsMessage(props) ==
    Value("This operation uses tables with different amounts of columns, "
          \o "which is forbidden. Please add the missing columns.")

TableOperationUsesTablesWithDifferentColumnTypesMessage(props) ==
    IF ~IsObject(props) THEN Throw("TypeError")
    ELSE Value("This operation uses tables with different columns types! "
               \o "Compare the columns at index "
               \o NumberToString(props.columnIndex)
               \o ". They are not convertable to each other.")

\* The message names only what was expected.
IncorrectGlobalReferenceTargetMessageExpectedOnly(props) ==
    IF ~IsObject(props) THEN Throw("TypeError")
    ELSE Value("Expected definition of type '" \o props.expected \o "'.")
IncorrectGlobalReferenceTargetMessage(props) ==
    IF ~IsObject(props) THEN Throw("TypeError")
    ELSE Value("Expected definition of type '" \o props.expected
               \o "' but received '" \o props.received \o "'.")

\* The first name is read unguarded: dataTypeNames[0].length on an empty
\* array reads a property of undefined.
UnknownDataTypeMessageFirstName(props) ==
    IF ~IsObject(props) THEN Throw("TypeError")
    ELSE IF ~IsObject(props.dataType) THEN Throw("TypeError")
    ELSE IF Len(props.dataType.dataTypeNames) = 0 THEN Throw("TypeError")
    ELSE Value("Unknown data type '"
               \o Join(props.dataType.dataTypeNames, " ") \o "("
               \o Join(MapValue(props.dataType.arguments), ", ") \o ")'.")
UnknownDataTypeMessage(props) ==
    IF ~IsObject(props) THEN Throw("TypeError")
    ELSE IF ~IsObject(props.dataType) THEN Throw("TypeError")
    ELSE Value("Unknown data type '"
               \o Join(props.dataType.dataTypeNames, " ") \o "("
               \o Join(MapValue(props.dataType.arguments), ", ") \o ")'.")

\* The messageGenerator parameter of create, captured by the closure of e.
MessageGenerator(e, props) ==
    CASE e = "DuplicatedVariableName" -> DuplicatedVariableNameMessage(props)
      [] e = "NumericValueIsNotInteger" -> NumericValueIsNotIntegerMessage(props)
      [] e = "BinaryOperatorNotDefinedForGivenExpressions" ->
            BinaryOperatorNotDefinedForGivenExpressionsMessage(props)
      [] e = "UnaryOperatorNotDefinedForGivenExpression" ->
            UnaryOperatorNotDefinedForGivenExpressionMessage(props)
      [] e = "ExpressionMustReturnABoolean" -> ExpressionMustReturnABooleanMessage(props)
      [] e = "AllStarSelectionRequiresTableSources" ->
            AllStarSelectionRequiresTableSourcesMessage(props)
      [] e = "TableDefinitionRequiresAtLeastOneColumn" ->
            TableDefinitionRequiresAtLeastOneColumnMessage(props)
      [] e = "SubQueriesWithinSelectStatementsMustHaveExactlyOneColumn" ->
            SubQueriesWithinSelectStatementsMustHaveExactlyOneColumnMessage(props)
      [] e = "CannotDeriveTypeOfExpression" -> CannotDeriveTypeOfExpressionMessage(props)
      [] e = "TableOperationUsesTablesWithDifferentColumnCounts" ->
            TableOperationUsesTablesWithDifferentColumnCountsMessage(props)
      [] e = "TableOperationUsesTablesWithDifferentColumnTypes" ->
            TableOperationUsesTablesWithDifferentColumnTypesMessage(props)
      [] e = "IncorrectGlobalReferenceTarget" ->
            IncorrectGlobalReferenceTargetMessage(props)
      [] e = "UnknownDataType" -> UnknownDataTypeMessage(props)

\* ---------------------------------------------------- diagnostic generators
\* One entry highlights the whole node instead of its declared property.
DiagnosticGeneratorWholeNode(e, node) ==
    [node |-> node,
     property |-> IF e = "TableDefinitionRequiresAtLeastOneColumn" THEN Undefined
                  ELSE ReportAs[e].property,
     index |-> Undefined, code |-> Undefined]
\* The diagnosticGenerator parameter of create: the object literal
\* ({ node, property }) or ({ node }); it sets neither index nor code.
DiagnosticGenerator(e, node) ==
    [node |-> node, property |-> ReportAs[e].property,
     index |-> Undefined, code |-> Undefined]

\* -------------------------------------------------------------------- state
VARIABLES
    Code,      \* reporter.Code of each catalog entry
    heap,      \* the DiagnosticInfo objects alive, by address
    pc,        \* where each pass is inside the reporter closure
    entry,     \* the reporter a pass has invoked
    node,      \* its node argument
    props,     \* its props argument
    message,   \* the value of messageGenerator(props), once evaluated
    info,      \* the address held by the local const info, 0 before it is bound
    sink,      \* the calls the pass's accept callback has received
    thrown,    \* what accept threw inside the current invocation
    error      \* the error that reached the caller of the reporter

vars == <<Code, heap, pc, entry, node, props, message, info, sink, thrown, error>>

\* One address per pass suffices: an invocation allocates one object.
Addrs == 1..NumPasses

\* What the external accept callback may throw.
SinkErrors == {"SinkError", "RangeError"}

Init ==
    /\ Code = [e \in Entries |-> CodeOf(e)]
    /\ heap = <<>>
    /\ pc = [p \in Passes |-> "idle"]
    /\ entry = [p \in Passes |-> Undefined]
    /\ node = [p \in Passes |-> 0]
    /\ props = [p \in Passes |-> Missing]
    /\ message = [p \in Passes |-> Undefined]
    /\ info = [p \in Passes |-> 0]
    /\ sink = [p \in Passes |-> <<>>]
    /\ thrown = [p \in Passes |-> Undefined]
    /\ error = [p \in Passes |-> Undefined]

\* ----------------------------------------------------------------- actions
\* A validator calls reporter(node, props, accept): the arguments are bound.
Call(p, e, n, pr) ==
    /\ pc[p] = "idle"
    /\ pc' = [pc EXCEPT ![p] = "called"]
    /\ entry' = [entry EXCEPT ![p] = e]
    /\ node' = [node EXCEPT ![p] = n]
    /\ props' = [props EXCEPT ![p] = pr]
    /\ UNCHANGED <<Code, heap, message, info, sink, thrown, error>>

\* Second argument of accept, evaluated first: messageGenerator(props).
\* A throw leaves the closure at once.
Render(p) ==
    /\ pc[p] = "called"
    /\ LET r == MessageGenerator(entry[p], props[p]) IN
        IF r.ok
        THEN /\ message' = [message EXCEPT ![p] = r.value]
             /\ pc' = [pc EXCEPT ![p] = "rendered"]
             /\ error' = error
        ELSE /\ message' = message
             /\ pc' = [pc EXCEPT ![p] = "threw"]
             /\ error' = [error EXCEPT ![p] = r.error]
    /\ UNCHANGED <<Code, heap, entry, node, props, info, sink, thrown>>

\* The address of a newly created object: one no live object has.
NewAddress == CHOOSE a \in Addrs \ DOMAIN heap : \A b \in Addrs \ DOMAIN heap : a <= b

\* The generator keeps one object per entry and refills it on every call.
ResolveShared(p) ==
    /\ pc[p] = "rendered"
    /\ LET users == {q \in Passes : info[q] # 0 /\ entry[q] = entry[p]}
           a == IF users = {} THEN NewAddress
                ELSE info[CHOOSE q \in users : TRUE]
       IN /\ heap' = (a :> DiagnosticGenerator(entry[p], node[p])) @@ heap
          /\ info' = [info EXCEPT ![p] = a]
    /\ pc' = [pc EXCEPT ![p] = "resolved"]
    /\ UNCHANGED <<Code, entry, node, props, message, sink, thrown, error>>
\* const info = diagnosticGenerator(node): the object literal is a new object.
Resolve(p) ==
    /\ pc[p] = "rendered"
    /\ LET a == NewAddress IN
          /\ heap' = (a :> DiagnosticGenerator(entry[p], node[p])) @@ heap
          /\ info' = [info EXCEPT ![p] = a]
    /\ pc' = [pc EXCEPT ![p] = "resolved"]
    /\ UNCHANGED <<Code, entry, node, props, message, sink, thrown, error>>

\* The assignment written the wrong way round: reporter.Code = info.code.
StampReporter(p) ==
    /\ pc[p] = "resolved"
    /\ Code' = [Code EXCEPT ![entry[p]] = heap[info[p]].code]
    /\ pc' = [pc EXCEPT ![p] = "stamped"]
    /\ UNCHANGED <<heap, entry, node, props, message, info, sink, thrown, error>>
\* info.code = code: a write through the reference, of the captured code.
Stamp(p) ==
    /\ pc[p] = "resolved"
    /\ heap' = [heap EXCEPT ![info[p]].code = CodeOf(entry[p])]
    /\ pc' = [pc EXCEPT ![p] = "stamped"]
    /\ UNCHANGED <<Code, entry, node, props, message, info, sink, thrown, error>>

\* A try/catch around accept that drops the error.
CompletionSwallowed(outcome) == Value(Undefined)
\* How the closure completes given how accept completed: the call is its
\* only statement and sits in no try block.
Completion(outcome) == outcome

\* The call accept(severity, message, info) itself: the sink receives the
\* three arguments, then returns or throws.
Accept(p, outcome) ==
    /\ sink' = [sink EXCEPT ![p] = Append(@,
                  [severity |-> SeverityOf(entry[p]),
                   message |-> message[p],
                   info |-> info[p],
                   seen |-> heap[info[p]]])]
    /\ thrown' = [thrown EXCEPT ![p] = IF outcome.ok THEN Undefined ELSE outcome.error]
    /\ LET c == Completion(outcome) IN
          /\ pc' = [pc EXCEPT ![p] = IF c.ok THEN "returned" ELSE "threw"]
          /\ error' = [error EXCEPT ![p] = IF c.ok THEN Undefined ELSE c.error]
    /\ UNCHANGED <<Code, heap, entry, node, props, message, info>>

\* accept is called with the generator's object before the code is written.
ForwardUnstamped(p) ==
    /\ pc[p] \in {"resolved", "stamped"}
    /\ \E outcome \in {Value(Undefined)} \cup {Throw(err) : err \in SinkErrors} :
          Accept(p, outcome)
\* All three arguments are evaluated: accept is called.
Forward(p) ==
    /\ pc[p] = "stamped"
    /\ \E outcome \in {Value(Undefined)} \cup {Throw(err) : err \in SinkErrors} :
          Accept(p, outcome)

\* The invocation is over and the validator moves on: the closure's locals
\* are gone, and the info object is collected once nothing refers to it.
Release(p) ==
    /\ pc[p] \in {"returned", "threw"}
    /\ pc' = [pc EXCEPT ![p] = "idle"]
    /\ entry' = [entry EXCEPT ![p] = Undefined]
    /\ node' = [node EXCEPT ![p] = 0]
    /\ props' = [props EXCEPT ![p] = Missing]
    /\ message' = [message EXCEPT ![p] = Undefined]
    /\ info' = [info EXCEPT ![p] = 0]
    /\ sink' = [sink EXCEPT ![p] = <<>>]
    /\ thrown' = [thrown EXCEPT ![p] = Undefined]
    /\ error' = [error EXCEPT ![p] = Undefined]
    /\ heap' = [a \in {b \in DOMAIN heap : b # info[p] \/ \E q \in Passes \ {p} : info[q] = b}
                  |-> heap[a]]
    /\ UNCHANGED Code

\* ---------------------------------------------------------- specifications
\* Run to completion: a reporter is entered only while no other invocation
\* is in progress.
NoneActive == \A q \in Passes : pc[q] = "idle"

Next ==
    \E p \in Passes :
        \/ \E e \in Entries : \E n \in Nodes : \E pr \in Params(e) :
              NoneActive /\ Call(p, e, n, pr)
        \/ Render(p)
        \/ Resolve(p)
        \/ Stamp(p)
        \/ Forward(p)
        \/ Release(p)

Spec == Init /\ [][Next]_vars

\* Concurrent validation passes: each pass reports on the node of its own
\* document, and the steps of different invocations interleave freely.
NodeOfPass(p) == ((p - 1) % MaxNodes) + 1
ConcEntries ==
    {"DuplicatedVariableName",
     "ExpressionMustReturnABoolean",
     "TableOperationUsesTablesWithDifferentColumnCounts",
     "TableOperationUsesTablesWithDifferentColumnTypes"}
ConcParams(e) ==
    CASE e = "DuplicatedVariableName" -> {[name |-> "x"], [name |-> "ab"]}
      [] e = "ExpressionMustReturnABoolean" -> {[discriminator |-> "integer"]}
      [] e = "TableOperationUsesTablesWithDifferentColumnTypes" ->
            {[columnIndex |-> Int32(0)], [columnIndex |-> Int32(2)]}
      [] OTHER -> {NoProps}

NextConc ==
    \E p \in Passes :
        \/ \E e \in ConcEntries : \E pr \in ConcParams(e) :
              Call(p, e, NodeOfPass(p), pr)
        \/ Render(p)
        \/ Resolve(p)
        \/ Stamp(p)
        \/ Forward(p)
        \/ Release(p)

SpecConc == Init /\ [][NextConc]_vars

\* ------------------------------------------------------------ claim helpers
\* s contains sub as a contiguous substring.
Contains(s, sub) ==
    \E i \in 0..(Len(s) - Len(sub)) : SubSeq(s, i + 1, i + Len(sub)) = sub

WellFormed(p) == props[p] \in DeclaredParams(entry[p])
Ended(p) == pc[p] \in {"returned", "threw"}
Calls(p) == {sink[p][i] : i \in 1..Len(sink[p])}

\* The text JavaScript prints for each number the validators pass.
NumberText(v) ==
    CASE v = Int32(0) -> "0"
      [] v = NegZero -> "0"
      [] v = Int32(2) -> "2"
      [] v = Int32(10) -> "10"
      [] v = Int32(-3) -> "-3"
      [] v = Int32(2147483647) -> "2147483647"
      [] v = Dec(1, 5) -> "1.5"
      [] v = Dec(2, 5) -> "2.5"
      [] v = NaN -> "NaN"
      [] v = Infinity -> "Infinity"
      [] v = NegInfinity -> "-Infinity"

\* The textual forms of the values a well-formed parameter record supplies.
ParamTexts(e, pr) ==
    CASE e = "DuplicatedVariableName" -> {pr.name}
      [] e = "NumericValueIsNotInteger" -> {NumberText(pr.value)}
      [] e = "BinaryOperatorNotDefinedForGivenExpressions" ->
            {pr.op, pr.left.discriminator, pr.right.discriminator}
      [] e = "UnaryOperatorNotDefinedForGivenExpression" ->
            {pr.op, pr.operand.discriminator}
      [] e = "ExpressionMustReturnABoolean" -> {pr.discriminator}
      [] e = "TableOperationUsesTablesWithDifferentColumnTypes" ->
            {NumberText(pr.columnIndex)}
      [] e = "IncorrectGlobalReferenceTarget" -> {pr.expected, pr.received}
      [] e = "UnknownDataType" ->
            {pr.dataType.dataTypeNames[i] : i \in 1..Len(pr.dataType.dataTypeNames)}
            \cup {NumberText(pr.dataType.arguments[i].value) :
                    i \in 1..Len(pr.dataType.arguments)}
      [] OTHER -> {}

Parameterless ==
    {"AllStarSelectionRequiresTableSources",
     "TableDefinitionRequiresAtLeastOneColumn",
     "SubQueriesWithinSelectStatementsMustHaveExactlyOneColumn",
     "CannotDeriveTypeOfExpression",
     "TableOperationUsesTablesWithDifferentColumnCounts"}

\* ------------------------------------------------------------------ claims

\* C1: an invocation of any catalog entry with a well-formed parameter record
\* that has ended has called accept exactly once (and never more than once on
\* the way), with severity "error", the entry's exposed code, and the node it
\* was given.
ReporterCallsAcceptOnce ==
    \A p \in Passes :
        /\ Len(sink[p]) <= 1
        /\ (Ended(p) /\ WellFormed(p)) =>
              /\ Len(sink[p]) = 1
              /\ sink[p][1].severity = "error"
              /\ sink[p][1].seen.code = Code[entry[p]]
              /\ sink[p][1].seen.node = node[p]
\* The last entry has reported on the second node and returned.
C1Witness ==
    \E p \in Passes :
        /\ pc[p] = "returned" /\ entry[p] = "UnknownDataType" /\ node[p] = 2
        /\ Len(sink[p]) = 1 /\ sink[p][1].seen.node = 2

\* C2: every forwarded diagnostic highlights the property the catalog table
\* declares for its entry, and carries no index.
ClaimedProperty(e) ==
    CASE e = "DuplicatedVariableName" -> "name"
      [] e = "NumericValueIsNotInteger" -> "value"
      [] e \in {"BinaryOperatorNotDefinedForGivenExpressions",
                "UnaryOperatorNotDefinedForGivenExpression",
                "TableOperationUsesTablesWithDifferentColumnCounts",
                "TableOperationUsesTablesWithDifferentColumnTypes"} -> "operator"
      [] e \in {"TableDefinitionRequiresAtLeastOneColumn",
                "IncorrectGlobalReferenceTarget"} -> "element"
      [] e = "SubQueriesWithinSelectStatementsMustHaveExactlyOneColumn" -> "subQuery"
      [] e \in {"ExpressionMustReturnABoolean",
                "AllStarSelectionRequiresTableSources",
                "CannotDeriveTypeOfExpression",
                "UnknownDataType"} -> Undefined
HighlightsDeclaredProperty ==
    \A p \in Passes : \A c \in Calls(p) :
        /\ c.seen.property = ClaimedProperty(entry[p])
        /\ c.seen.index = Undefined
\* A zero-column table definition was reported on its element property.
C2Witness ==
    \E p \in Passes : \E c \in Calls(p) :
        /\ entry[p] = "TableDefinitionRequiresAtLeastOneColumn"
        /\ c.seen.property = "element"

\* C3: the 13 exposed codes are pairwise distinct, so the code on a forwarded
\* diagnostic belongs to the invoked entry and to no other.
CodesPairwiseDistinct ==
    /\ Cardinality(Entries) = 13
    /\ Cardinality({Code[e] : e \in Entries}) = Cardinality(Entries)
    /\ \A p \in Passes : \A c \in Calls(p) : \A e \in Entries :
          c.seen.code = Code[e] => e = entry[p]
\* A diagnostic of the twelfth entry was forwarded with the twelfth code.
C3Witness ==
    \E p \in Passes : \E c \in Calls(p) :
        entry[p] = "IncorrectGlobalReferenceTarget" /\ c.seen.code = "SQL00012"

\* C4: with the steps of several invocations interleaved, every call a sink
\* receives is the one its invocation makes alone: own code, node, property
\* and message; no two invocations hold the same info object, and the object
\* a sink was given still reads as it did when it was forwarded.
ConcurrentInvocationsIndependent ==
    /\ \A p \in Passes : \A q \in Passes \ {p} : info[p] # 0 => info[p] # info[q]
    /\ \A p \in Passes : \A c \in Calls(p) :
          /\ c.severity = "error"
          /\ c.message = MessageGenerator(entry[p], props[p]).value
          /\ c.seen = [node |-> node[p], property |-> ClaimedProperty(entry[p]),
                       index |-> Undefined, code |-> Code[entry[p]]]
          /\ heap[c.info] = c.seen
\* Two passes used the same reporter with different parameters at the same
\* time, and both were served.
C4Witness ==
    \E p \in Passes : \E q \in Passes \ {p} :
        /\ pc[p] = "returned" /\ pc[q] = "returned"
        /\ entry[p] = entry[q] /\ props[p] # props[q] /\ node[p] # node[q]

\* C5: no step changes an entry's exposed Code, which stays the code it was
\* created with and the code on everything the entry forwarded; a step writes
\* to no info object but the one the stepping invocation resolved, and it
\* touches no sink but its own, which it calls at most once.
CatalogUnchangedStep ==
    /\ Code' = Code
    /\ \A a \in DOMAIN heap \cap DOMAIN heap' :
          heap'[a] # heap[a] =>
              \E p \in Passes : info[p] = a /\ pc[p] = "resolved" /\ pc'[p] = "stamped"
    /\ \A p \in Passes :
          sink'[p] # sink[p] =>
              /\ pc'[p] # pc[p]
              /\ Len(sink'[p]) <= 1
              /\ \A q \in Passes \ {p} : sink'[q] = sink[q]
CatalogUnchanged ==
    /\ [](/\ \A e \in Entries : Code[e] = ReportAs[e].code
          /\ \A p \in Passes : \A c \in Calls(p) : c.seen.code = Code[entry[p]])
    /\ [][CatalogUnchangedStep]_vars
\* A sink failed on a diagnostic of the first entry.
C5Witness ==
    \E p \in Passes :
        /\ pc[p] = "threw" /\ thrown[p] = "SinkError"
        /\ entry[p] = "DuplicatedVariableName"
        /\ Code["DuplicatedVariableName"] = "SQL00001"

\* C6: when accept throws, the reporter's caller gets that very error: the
\* invocation ends by throwing it, after exactly one call of accept.
SinkFailurePropagates ==
    \A p \in Passes :
        thrown[p] # Undefined =>
            /\ pc[p] = "threw"
            /\ error[p] = thrown[p]
            /\ Len(sink[p]) = 1
\* The sink threw a RangeError and the caller caught a RangeError.
C6Witness ==
    \E p \in Passes : thrown[p] = "RangeError" /\ error[p] = "RangeError"

\* C7: the message rendered from a well-formed parameter record is non-empty
\* and contains the text of every supplied value; name "x" gives exactly
\* "Duplicated variable name 'x'."; columnIndex 2 gives "index 2"; the
\* parameterless entries give one fixed text whatever they are passed.
MessageContainsParameters ==
    \A p \in Passes :
        (message[p] # Undefined) =>
            /\ Len(message[p]) > 0
            /\ WellFormed(p) =>
                  \A t \in ParamTexts(entry[p], props[p]) : Contains(message[p], t)
            /\ (entry[p] = "DuplicatedVariableName" /\ props[p] = [name |-> "x"]) =>
                  message[p] = "Duplicated variable name 'x'."
            /\ (entry[p] = "TableOperationUsesTablesWithDifferentColumnTypes"
                /\ props[p] = [columnIndex |-> Int32(2)]) =>
                  Contains(message[p], "index 2")
            /\ entry[p] \in Parameterless =>
                  message[p] = MessageGenerator(entry[p], NoProps).value
\* The documented duplicate-name example was rendered and forwarded.
C7Witness ==
    \E p \in Passes : \E c \in Calls(p) :
        /\ entry[p] = "DuplicatedVariableName" /\ props[p] = [name |-> "x"]
        /\ c.message = "Duplicated variable name 'x'."

\* C8: rendering a value of the declared parameter type never throws, edge
\* values included: such an invocation gets past rendering with a message
\* that spells the value out, and can only end after accept was called.
Boundary(p) ==
    \/ props[p] \in {[name |-> ""], [value |-> Int32(0)], [value |-> NaN],
                     [value |-> NegInfinity], [columnIndex |-> Int32(2147483647)],
                     [columnIndex |-> Int32(0)],
                     [dataType |-> [dataTypeNames |-> <<>>, arguments |-> <<>>]]}
    \/ /\ entry[p] \in {"BinaryOperatorNotDefinedForGivenExpressions",
                        "UnaryOperatorNotDefinedForGivenExpression"}
       /\ WellFormed(p) /\ props[p].op = ""
RenderingNeverFails ==
    \A p \in Passes :
        (pc[p] \notin {"idle", "called"} /\ WellFormed(p)) =>
            /\ pc[p] = "threw" => thrown[p] # Undefined
            /\ message[p] # Undefined
            /\ Ended(p) => Len(sink[p]) = 1
            /\ Boundary(p) =>
                  \A t \in ParamTexts(entry[p], props[p]) : Contains(message[p], t)
\* A data type with no names and no arguments was reported.
C8Witness ==
    \E p \in Passes : \E c \in Calls(p) :
        /\ entry[p] = "UnknownDataType"
        /\ props[p] = [dataType |-> [dataTypeNames |-> <<>>, arguments |-> <<>>]]
        /\ c.message = "Unknown data type '()'."

\* C9: the i-th catalog entry, in declaration order, has the code "SQL"
\* followed by i written with five digits; every code on a forwarded
\* diagnostic is "SQL" and five decimal digits.
FiveDigits(i) ==
    LET d == NatToString(i) IN SubSeq("00000", 1, 5 - Len(d)) \o d
IsSqlCode(c) ==
    /\ Len(c) = 8
    /\ SubSeq(c, 1, 3) = "SQL"
    /\ \A k \in 4..8 : \E d \in 0..9 : SubSeq(c, k, k) = DigitChar(d)
CodesFollowDeclarationOrder ==
    /\ Len(ReportAsKeys) = 13
    /\ \A i \in 1..Len(ReportAsKeys) :
          /\ Code[ReportAsKeys[i]] = "SQL" \o FiveDigits(i)
          /\ IsSqlCode(Code[ReportAsKeys[i]])
    /\ \A p \in Passes : \A c \in Calls(p) : IsSqlCode(c.seen.code)
\* The thirteenth entry forwarded a diagnostic coded SQL00013.
C9Witness ==
    \E p \in Passes : \E c \in Calls(p) :
        entry[p] = ReportAsKeys[13] /\ c.seen.code = "SQL00013"

\* C10: inside an invocation the message is rendered before the target is
\* resolved, the target is stamped before accept is called, and accept is
\* called with a target that carries the code; the stamp sets the code and
\* keeps node, property and index; an invocation that throws before accept
\* was reached has not called it.
StepOrderStep ==
    \A p \in Passes :
        /\ info'[p] # info[p] /\ info'[p] # 0 =>
              pc[p] = "rendered" /\ message[p] # Undefined
        /\ (pc[p] = "resolved" /\ pc'[p] # pc[p]) =>
              /\ pc'[p] = "stamped"
              /\ sink'[p] = sink[p]
              /\ heap'[info[p]] = [node |-> heap[info[p]].node,
                                   property |-> heap[info[p]].property,
                                   index |-> heap[info[p]].index,
                                   code |-> Code[entry[p]]]
        /\ Len(sink'[p]) > Len(sink[p]) =>
              /\ pc[p] = "stamped"
              /\ heap[info[p]].code = Code[entry[p]]
              /\ sink'[p][Len(sink'[p])].seen.code = Code[entry[p]]
              /\ sink'[p][Len(sink'[p])].message = message[p]
        /\ (pc'[p] = "threw" /\ thrown'[p] = Undefined) => sink'[p] = <<>>
StepOrder == [][StepOrderStep]_vars
\* Rendering threw on a missing operand, and the sink was never called.
C10Witness ==
    \E p \in Passes :
        /\ pc[p] = "threw" /\ error[p] = "TypeError"
        /\ message[p] = Undefined /\ info[p] = 0 /\ sink[p] = <<>>

====
